---- MODULE Spec2Model ----
(***************************************************************************)
(* A model of duplo_builder.py: the Circuit wire allocator and name        *)
(* registry, the Component construction protocol (primitive gates and      *)
(* Subcircuit macro expansion), the BristolCircuit reader and the wire     *)
(* numbering of Circuit.build_description.                                 *)
(*                                                                         *)
(* Python values are represented as follows.                               *)
(*   - A string is a sequence of one-character strings.                    *)
(*   - A Circuit.Wire object is its allocation number (object identity).   *)
(*   - A dict is a function whose DOMAIN is the set of keys.               *)
(*   - A text is a sequence of lines, a line is the sequence of its        *)
(*     whitespace-separated tokens (a blank line is the empty sequence).   *)
(*   - A wire specification is <<"wire", w>>, <<"str", s>>,                *)
(*     <<"list", items>>, <<"comp", output>> (a Component with that        *)
(*     output list) or <<"bad">> (a value of any other type).              *)
(***************************************************************************)
EXTENDS Integers, Sequences, FiniteSets, TLC

VARIABLES
    wires,          \* wires[c]: Circuit.wires, the set of wires of circuit c
    wires_by_name,  \* wires_by_name[c]: Circuit.wires_by_name, name -> wire
    gates,          \* gates[c]: Circuit.gates, the list of Gate records
    nwires,         \* number of Circuit.Wire objects created so far
    comps,          \* the Component objects constructed so far
    file,           \* the file at the path that save writes
    ret             \* the last call: its arguments and what it returned or raised

vars == <<wires, wires_by_name, gates, nwires, comps, file, ret>>

----------------------------------------------------------------------------
(* Bounds of the model *)

MaxWires == 3     \* Circuit.Wire objects created, over all circuits
MaxGates == 2     \* gates of one circuit
MainWires == 8    \* the same two bounds for the demonstration program
MainGates == 4
AllWires == 2     \* the same two bounds where every operation is called
AllGates == 2

\* the Circuit objects of a run
Circuits == {"c", "d"}

----------------------------------------------------------------------------
(* Strings and integers *)

None == <<"None">>

EmptyDict == [x \in {} |-> 0]

Put(d, k, v) == [x \in (DOMAIN d) \cup {k} |-> IF x = k THEN v ELSE d[x]]

Digits == <<"0", "1", "2", "3", "4", "5", "6", "7", "8", "9">>

IsDigit(ch) == \E d \in 1..10 : Digits[d] = ch

DigitVal(ch) == (CHOOSE d \in 1..10 : Digits[d] = ch) - 1

RECURSIVE StrNat(_)
StrNat(n) == IF n < 10 THEN <<Digits[n + 1]>>
             ELSE StrNat(n \div 10) \o <<Digits[(n % 10) + 1]>>

\* str(i) and "%i" % i of an int
str(i) == IF i < 0 THEN <<"-">> \o StrNat(0 - i) ELSE StrNat(i)

RECURSIVE NatVal(_)
NatVal(s) == IF Len(s) = 0 THEN 0
             ELSE 10 * NatVal(SubSeq(s, 1, Len(s) - 1)) + DigitVal(s[Len(s)])

AllDigits(s) == Len(s) > 0 /\ \A i \in 1..Len(s) : IsDigit(s[i])

\* int(s): an optional sign and decimal digits; anything else raises ValueError
int(s) ==
    IF AllDigits(s) THEN [ok |-> TRUE, val |-> NatVal(s)]
    ELSE IF Len(s) > 1 /\ s[1] \in {"-", "+"} /\ AllDigits(Tail(s))
         THEN [ok |-> TRUE,
               val |-> IF s[1] = "-" THEN 0 - NatVal(Tail(s)) ELSE NatVal(Tail(s))]
         ELSE [ok |-> FALSE, val |-> 0]

----------------------------------------------------------------------------
(* Circuit: allocator and registry.  A circuit is handled as a record      *)
(* cs = [wires, wires_by_name, gates, nwires] while a call runs.           *)

\* Circuit.add_gate
\* add_gate with a bug: the gate takes the place of the list
add_gate_replacing(cs, gate) == [cs EXCEPT !.gates = <<gate>>]

add_gate(cs, gate) == [cs EXCEPT !.gates = Append(@, gate)]

\* Gate.__init__
Gate(operation, input_wires, output_wire) ==
    [operation |-> operation, input_wires |-> input_wires, output_wire |-> output_wire]

\* Circuit.get_wire with no name: [cs, wire], the circuit after the call and the
\* fresh wire returned
new_wire(cs, wire) ==
    [cs |-> [cs EXCEPT !.wires = @ \cup {wire}, !.nwires = wire], wire |-> wire]

\* self.wires_by_name[name] = <the wire just allocated>
register(g, name) ==
    [cs |-> [g.cs EXCEPT !.wires_by_name = Put(@, name, g.wire)], wire |-> g.wire]

\* Circuit.get_wire: [cs, wire], the circuit after the call and the wire returned
\* get_wire with a bug: a wire is allocated on every call
get_wire_fresh(cs, name) ==
    IF name = None THEN new_wire(cs, cs.nwires + 1)
    ELSE register(new_wire(cs, cs.nwires + 1), name)

get_wire(cs, name) ==
    IF name = None THEN new_wire(cs, cs.nwires + 1)
    ELSE IF name \notin DOMAIN cs.wires_by_name
    THEN register(new_wire(cs, cs.nwires + 1), name)
    ELSE [cs |-> cs, wire |-> cs.wires_by_name[name]]

\* the places where "::" occurs in name
SepAt(name) == {i \in 1..(Len(name) - 1) : name[i] = ":" /\ name[i + 1] = ":"}

Max(S) == CHOOSE x \in S : \A y \in S : y <= x

Range(n) == 1..(IF n > 0 THEN n ELSE 0)

\* ["%s_%i" % (prefix, i) for i in xrange(size)], or ValueError from int(size)
\* group_names with a bug: the indices run from 1 to size
group_names_from_one(prefix, size) ==
    IF ~size.ok THEN [ok |-> FALSE, names |-> <<>>]
    ELSE [ok |-> TRUE, names |-> [i \in Range(size.val) |-> prefix \o <<"_">> \o str(i)]]

group_names(prefix, size) ==
    IF ~size.ok THEN [ok |-> FALSE, names |-> <<>>]
    ELSE [ok |-> TRUE, names |-> [i \in Range(size.val) |-> prefix \o <<"_">> \o str(i - 1)]]

\* name.rsplit("::", 1) at the last "::", which starts at index at
rsplit_names(name, at) ==
    group_names(SubSeq(name, 1, at - 1), int(SubSeq(name, at + 2, Len(name))))

\* Circuit.expand_name: [ok, names]; ok is FALSE when int(size) raises
expand_name(name) ==
    IF SepAt(name) # {} THEN rsplit_names(name, Max(SepAt(name)))
    ELSE [ok |-> TRUE, names |-> <<name>>]

\* one step of a list comprehension over get_wire: the wire of g is appended to
\* acc.out and the circuit of g replaces acc.cs
Collect(acc, g) == [cs |-> g.cs, out |-> Append(acc.out, g.wire)]

\* [self.get_wire(name) for name in names], continued from acc = [cs, out]
RECURSIVE get_wires(_, _)
get_wires(acc, names) ==
    IF Len(names) = 0 THEN acc
    ELSE get_wires(Collect(acc, get_wire(acc.cs, Head(names))), Tail(names))

\* sum(lists, []): the concatenation of the lists
RECURSIVE sum(_)
sum(ls) == IF Len(ls) = 0 THEN <<>> ELSE Head(ls) \o sum(Tail(ls))

\* the result [cs, ok, out] of convert_to_wires
Converted(cs, ok, out) == [cs |-> cs, ok |-> ok, out |-> out]

convert_ok(r) == Converted(r.cs, TRUE, r.out)

\* the str branch of convert_to_wires, e the expanded name
convert_names(cs, e) ==
    IF ~e.ok THEN Converted(cs, FALSE, <<>>)
    ELSE convert_ok(get_wires([cs |-> cs, out |-> <<>>], e.names))

\* the list branch of convert_to_wires, r the converted items
convert_sum(r) == Converted(r.cs, r.ok, IF r.ok THEN sum(r.outs) ELSE <<>>)

\* one step of map(self.convert_to_wires, specs): h is appended to acc = [cs, ok, outs]
convert_step(acc, h) ==
    [cs |-> h.cs, ok |-> h.ok, outs |-> IF h.ok THEN Append(acc.outs, h.out) ELSE <<>>]

\* Circuit.convert_to_wires: [cs, ok, out]; ok is FALSE when ValueError is raised,
\* and cs then holds the wires registered before the raise
RECURSIVE convert_to_wires(_, _)
RECURSIVE convert_all(_, _)
convert_to_wires(cs, spec) ==
    CASE spec[1] = "wire" -> Converted(cs, TRUE, <<spec[2]>>)
      [] spec[1] = "str" -> convert_names(cs, expand_name(spec[2]))
      [] spec[1] = "list" ->
            convert_sum(convert_all([cs |-> cs, ok |-> TRUE, outs |-> <<>>], spec[2]))
      [] spec[1] = "comp" ->
            convert_to_wires(cs, <<"list", [i \in 1..Len(spec[2]) |-> <<"wire", spec[2][i]>>]>>)
      [] OTHER -> Converted(cs, FALSE, <<>>)

\* map(self.convert_to_wires, specs), continued from acc = [cs, ok, outs]: left to
\* right, stopping at the first raise
convert_all(acc, specs) ==
    IF Len(specs) = 0 \/ ~acc.ok THEN acc
    ELSE convert_all(convert_step(acc, convert_to_wires(acc.cs, Head(specs))), Tail(specs))

----------------------------------------------------------------------------
(* Component construction *)

AND == <<"A", "N", "D">>
XOR == <<"X", "O", "R">>
INV == <<"I", "N", "V">>

\* PrimitiveGate and its subclasses: operation, input_sizes, output_size
ANDGate == [kind |-> "primitive", operation |-> AND, input_sizes |-> <<1, 1>>, output_size |-> 1]
XORGate == [kind |-> "primitive", operation |-> XOR, input_sizes |-> <<1, 1>>, output_size |-> 1]
INVGate == [kind |-> "primitive", operation |-> INV, input_sizes |-> <<1>>, output_size |-> 1]

\* Subcircuit.__init__: the attributes taken from the parent template
Subcircuit(parent) ==
    [kind |-> "subcircuit", parent |-> parent,
     input_sizes |-> <<parent.left_input_wire_count, parent.right_input_wire_count>>,
     output_size |-> parent.output_wire_count]

\* PrimitiveGate.produce_gates with a bug: the input wires are taken from the last
\* argument to the first
PrimitiveGate_produce_gates_reversed(cs, cls, inputs, output) ==
    [cs |-> add_gate(cs, Gate(cls.operation,
                              [i \in 1..Len(inputs) |-> inputs[Len(inputs) + 1 - i][1]],
                              output[1])),
     ok |-> TRUE]

\* PrimitiveGate.produce_gates: [cs, ok]
PrimitiveGate_produce_gates(cs, cls, inputs, output) ==
    [cs |-> add_gate(cs, Gate(cls.operation,
                              [i \in 1..Len(inputs) |-> inputs[i][1]], output[1])),
     ok |-> TRUE]

\* enumerate_into with a bug: the keys are str(base + i + 1)
RECURSIVE enumerate_into_shifted(_, _, _, _)
enumerate_into_shifted(name_to_wire, base, ws, i) ==
    IF i >= Len(ws) THEN name_to_wire
    ELSE enumerate_into_shifted(Put(name_to_wire, str(base + i + 1), ws[i + 1]),
                                base, ws, i + 1)

\* name_to_wire[str(base + i)] = w for i, w in enumerate(ws), from index i on
RECURSIVE enumerate_into(_, _, _, _)
enumerate_into(name_to_wire, base, ws, i) ==
    IF i >= Len(ws) THEN name_to_wire
    ELSE enumerate_into(Put(name_to_wire, str(base + i), ws[i + 1]), base, ws, i + 1)

\* name_to_wire[name] = self.circuit.get_wire(), g the wire allocated
Subcircuit_new_wire(st, name, g) ==
    [st EXCEPT !.cs = g.cs, !.name_to_wire = Put(@, name, g.wire),
               !.out = Append(@, g.wire)]

\* the local get_wire of Subcircuit.produce_gates on st = [cs, name_to_wire, out]:
\* the wire returned is appended to st.out
\* Subcircuit_get_wire with a bug: an index not yet mapped takes the wire of the
\* gate's first input where there is one
Subcircuit_get_wire_reused(st, name) ==
    IF name \notin DOMAIN st.name_to_wire
    THEN IF Len(st.out) > 0
         THEN [st EXCEPT !.name_to_wire = Put(@, name, st.out[1]),
                         !.out = Append(@, st.out[1])]
         ELSE Subcircuit_new_wire(st, name, get_wire(st.cs, None))
    ELSE [st EXCEPT !.out = Append(@, st.name_to_wire[name])]

Subcircuit_get_wire(st, name) ==
    IF name \notin DOMAIN st.name_to_wire
    THEN Subcircuit_new_wire(st, name, get_wire(st.cs, None))
    ELSE [st EXCEPT !.out = Append(@, st.name_to_wire[name])]

\* map(get_wire, names) on st = [cs, name_to_wire, out]
RECURSIVE Subcircuit_get_wires(_, _)
Subcircuit_get_wires(st, names) ==
    IF Len(names) = 0 THEN st
    ELSE Subcircuit_get_wires(Subcircuit_get_wire(st, Head(names)), Tail(names))

\* self.circuit.add_gate(Gate(operation, map(get_wire, input_names),
\* get_wire(output_name))): st.out holds the input wires and then the output wire
\* Subcircuit_add_gate with a bug: the gate is built and not appended
Subcircuit_add_gate_dropped(st, operation) == [st EXCEPT !.out = <<>>]

Subcircuit_add_gate(st, operation) ==
    [st EXCEPT !.cs = add_gate(@, Gate(operation, SubSeq(st.out, 1, Len(st.out) - 1),
                                       st.out[Len(st.out)])),
               !.out = <<>>]

\* the body of the loop over parent.gate_descriptions for one desc of n >= 2 fields
Subcircuit_gate(st, desc, n) ==
    Subcircuit_add_gate(
        Subcircuit_get_wire(Subcircuit_get_wires(st, SubSeq(desc, 3, n - 2)), desc[n - 1]),
        desc[n])

\* the loop over parent.gate_descriptions on st = [cs, name_to_wire, out, ok]; ok
\* turns FALSE when desc[-2] raises IndexError, and cs then holds the gates appended
\* before the raise
RECURSIVE Subcircuit_loop(_, _)
Subcircuit_loop(st, descs) ==
    IF Len(descs) = 0 THEN st
    ELSE IF Len(Head(descs)) < 2 THEN [st EXCEPT !.ok = FALSE]
    ELSE Subcircuit_loop(Subcircuit_gate(st, Head(descs), Len(Head(descs))), Tail(descs))

\* Subcircuit.produce_gates with a bug: the output wires of the component are not
\* entered in name_to_wire
Subcircuit_produce_gates_unmapped(cs, cls, inputs, output) ==
    Subcircuit_loop(
        [cs |-> cs,
         name_to_wire |->
            enumerate_into(
                enumerate_into(EmptyDict, 0, inputs[1], 0),
                cls.parent.left_input_wire_count, inputs[2], 0),
         out |-> <<>>, ok |-> TRUE],
        cls.parent.gate_descriptions)

\* Subcircuit.produce_gates: [cs, ok]
Subcircuit_produce_gates(cs, cls, inputs, output) ==
    Subcircuit_loop(
        [cs |-> cs,
         name_to_wire |->
            enumerate_into(
                enumerate_into(
                    enumerate_into(EmptyDict, 0, inputs[1], 0),
                    cls.parent.left_input_wire_count, inputs[2], 0),
                cls.parent.wire_count - Len(output), output, 0),
         out |-> <<>>, ok |-> TRUE],
        cls.parent.gate_descriptions)

produce_gates(cs, cls, inputs, output) ==
    IF cls.kind = "primitive" THEN PrimitiveGate_produce_gates(cs, cls, inputs, output)
    ELSE Subcircuit_produce_gates(cs, cls, inputs, output)

\* what Component.__init__ leaves when it raises
Component_raise(cs, error, inputs) ==
    [cs |-> cs, ok |-> FALSE, error |-> error, inputs |-> inputs, output |-> <<>>]

\* Component.__init__ after self.produce_gates(), pg its result
Component_produced(pg, inputs, output) ==
    IF ~pg.ok THEN Component_raise(pg.cs, "IndexError", inputs)
    ELSE [cs |-> pg.cs, ok |-> TRUE, error |-> "", inputs |-> inputs, output |-> output]

\* Component.__init__ from self.output = [...] on, al the wires allocated
Component_outputs(cls, inputs, al) ==
    Component_produced(produce_gates(al.cs, cls, inputs, al.out), inputs, al.out)

\* Component.__init__ from the assertions on, conv the converted inputs
\* Component_checked with a bug: an input wider than its declared size is accepted
Component_checked_wide(cls, conv) ==
    IF ~conv.ok THEN Component_raise(conv.cs, "ValueError", <<>>)
    ELSE IF Len(conv.outs) # Len(cls.input_sizes)
    THEN Component_raise(conv.cs, "Wrong number of inputs to component!", conv.outs)
    ELSE IF ~\A i \in 1..Len(conv.outs) : Len(conv.outs[i]) >= cls.input_sizes[i]
    THEN Component_raise(conv.cs, "Bad input length!", conv.outs)
    ELSE Component_outputs(cls, conv.outs,
            get_wires([cs |-> conv.cs, out |-> <<>>],
                      [i \in Range(cls.output_size) |-> None]))

Component_checked(cls, conv) ==
    IF ~conv.ok THEN Component_raise(conv.cs, "ValueError", <<>>)
    ELSE IF Len(conv.outs) # Len(cls.input_sizes)
    THEN Component_raise(conv.cs, "Wrong number of inputs to component!", conv.outs)
    ELSE IF ~\A i \in 1..Len(conv.outs) : Len(conv.outs[i]) = cls.input_sizes[i]
    THEN Component_raise(conv.cs, "Bad input length!", conv.outs)
    ELSE Component_outputs(cls, conv.outs,
            get_wires([cs |-> conv.cs, out |-> <<>>],
                      [i \in Range(cls.output_size) |-> None]))

\* Component.__init__: [cs, ok, error, inputs, output]; when it raises, ok is
\* FALSE, error names the exception and cs holds what was done before the raise
Component_init(cs, cls, args) ==
    Component_checked(cls, convert_all([cs |-> cs, ok |-> TRUE, outs |-> <<>>], args))

----------------------------------------------------------------------------
(* BristolCircuit: the reader *)

\* map(int, f.readline().split()): [ok, vals]
get_fields(line) ==
    [ok |-> \A i \in 1..Len(line) : int(line[i]).ok,
     vals |-> [i \in 1..Len(line) |-> int(line[i]).val]]

\* the lines of text from line number from on (f.readline at end of file gives "")
LineAt(text, k) == IF k <= Len(text) THEN text[k] ELSE <<>>

SelectLines(text, from) ==
    LET rest == SubSeq(text, from, Len(text))
    IN  SelectSeq(rest, LAMBDA l : Len(l) > 0)

\* BristolCircuit.__init__: [ok, gate_count, wire_count, left_input_wire_count,
\* right_input_wire_count, output_wire_count, gate_descriptions]
BristolCircuit(text) ==
    LET h1 == get_fields(LineAt(text, 1))
        h2 == get_fields(LineAt(text, 2))
        gate_descriptions == SelectLines(text, 3)
        headers_ok == h1.ok /\ Len(h1.vals) = 2 /\ h2.ok /\ Len(h2.vals) = 3
    IN  [ok |-> headers_ok /\ Len(gate_descriptions) = h1.vals[1],
         gate_count |-> IF headers_ok THEN h1.vals[1] ELSE 0,
         wire_count |-> IF headers_ok THEN h1.vals[2] ELSE 0,
         left_input_wire_count |-> IF headers_ok THEN h2.vals[1] ELSE 0,
         right_input_wire_count |-> IF headers_ok THEN h2.vals[2] ELSE 0,
         output_wire_count |-> IF headers_ok THEN h2.vals[3] ELSE 0,
         gate_descriptions |-> gate_descriptions]

----------------------------------------------------------------------------
(* Circuit.build_description: the wire numbering and the text *)

\* wire_num with a bug: the counter is not advanced
wire_num_stale(ns, w, ws) ==
    IF ~ns.ok THEN ns
    ELSE IF w \notin ws THEN [ns EXCEPT !.ok = FALSE]
    ELSE IF w \notin DOMAIN ns.wire_numbers
    THEN [ns EXCEPT !.wire_numbers = Put(@, w, ns.counter),
                    !.line = Append(@, str(ns.counter))]
    ELSE [ns EXCEPT !.line = Append(@, str(ns.wire_numbers[w]))]

\* wire_num with a bug: a wire is numbered anew at every call
wire_num_again(ns, w, ws) ==
    IF ~ns.ok THEN ns
    ELSE IF w \notin ws THEN [ns EXCEPT !.ok = FALSE]
    ELSE [ns EXCEPT !.wire_numbers = Put(@, w, ns.counter),
                    !.counter = @ + 1,
                    !.line = Append(@, str(ns.counter))]

\* the local wire_num of build_description on the numbering state
\* ns = [wire_numbers, counter, ok, line]; ok turns FALSE when the assertion fails.
\* The value returned, ns'.wire_numbers[w], is appended to ns.line as it is printed.
wire_num(ns, w, ws) ==
    IF ~ns.ok THEN ns
    ELSE IF w \notin ws THEN [ns EXCEPT !.ok = FALSE]
    ELSE IF w \notin DOMAIN ns.wire_numbers
    THEN [ns EXCEPT !.wire_numbers = Put(@, w, ns.counter), !.counter = @ + 1,
                    !.line = Append(@, str(ns.counter))]
    ELSE [ns EXCEPT !.line = Append(@, str(ns.wire_numbers[w]))]

\* wire_num(w) for w in seq
RECURSIVE NumberAll(_, _, _)
NumberAll(ns, seq, ws) ==
    IF Len(seq) = 0 THEN ns
    ELSE NumberAll(wire_num(ns, Head(seq), ws), Tail(seq), ws)

\* for i, w in enumerate(output_wires): wire_numbers[w] = len(wires) - len(output_wires) + i
RECURSIVE ReserveOutputs(_, _, _, _)
ReserveOutputs(ns, output_wires, total, i) ==
    IF i >= Len(output_wires) \/ ~ns.ok THEN ns
    ELSE ReserveOutputs(
            [ns EXCEPT !.wire_numbers =
                Put(@, output_wires[i + 1], total - Len(output_wires) + i)],
            output_wires, total, i + 1)

\* "%i %i %s %s %s" % (len(self.input_wires), 1, inputs, outputs, self.operation),
\* ns.line holding the ids printed for the inputs and the output
Gate_line(gate, ns) ==
    [ns EXCEPT !.line = <<>>,
               !.lines = IF ns.ok
                         THEN Append(@, <<str(Len(gate.input_wires)), str(1)>>
                                        \o ns.line \o <<gate.operation>>)
                         ELSE @]

\* Gate.build: the inputs are numbered before the output
Gate_build(gate, ns, ws) ==
    Gate_line(gate,
        wire_num(NumberAll([ns EXCEPT !.line = <<>>], gate.input_wires, ws),
                 gate.output_wire, ws))

\* gate.build(wire_num) for gate in self.gates, the lines collected in ns.lines
RECURSIVE BuildGates(_, _, _)
\* BuildGates with a bug: the gates are walked from the last to the first
RECURSIVE BuildGates_backwards(_, _, _)
BuildGates_backwards(gs, ns, ws) ==
    IF Len(gs) = 0 THEN ns
    ELSE BuildGates_backwards(SubSeq(gs, 1, Len(gs) - 1),
                              Gate_build(gs[Len(gs)], ns, ws), ws)

BuildGates(gs, ns, ws) ==
    IF Len(gs) = 0 THEN ns
    ELSE BuildGates(Tail(gs), Gate_build(Head(gs), ns, ws), ws)

\* what build_description leaves when it raises
build_description_raise(cs, error) ==
    [cs |-> cs, ok |-> FALSE, error |-> error,
     left_input_wires |-> <<>>, right_input_wires |-> <<>>,
     output_wires |-> <<>>, wire_numbers |-> EmptyDict, text |-> <<>>]

\* build_description_text with a bug: the wire count printed is the number of wires
\* that were numbered
build_description_text_used(cs, conv, ns) ==
    IF ~ns.ok THEN build_description_raise(cs, "AssertionError")
    ELSE [cs |-> cs, ok |-> TRUE, error |-> "",
          left_input_wires |-> conv.outs[1],
          right_input_wires |-> conv.outs[2],
          output_wires |-> conv.outs[3],
          wire_numbers |-> ns.wire_numbers,
          text |-> << <<str(Len(cs.gates)), str(Cardinality(DOMAIN ns.wire_numbers))>>,
                      <<str(Len(conv.outs[1])), str(Len(conv.outs[2])),
                        str(Len(conv.outs[3]))>>,
                      <<>> >>
                   \o (IF Len(cs.gates) = 0 THEN << <<>> >> ELSE ns.lines)]

\* the text returned: the two header lines, a blank line and contents
\* ("\n".join of no line is the empty string, which leaves a second blank line)
build_description_text(cs, conv, ns) ==
    IF ~ns.ok THEN build_description_raise(cs, "AssertionError")
    ELSE [cs |-> cs, ok |-> TRUE, error |-> "",
          left_input_wires |-> conv.outs[1],
          right_input_wires |-> conv.outs[2],
          output_wires |-> conv.outs[3],
          wire_numbers |-> ns.wire_numbers,
          text |-> << <<str(Len(cs.gates)), str(Cardinality(cs.wires))>>,
                      <<str(Len(conv.outs[1])), str(Len(conv.outs[2])),
                        str(Len(conv.outs[3]))>>,
                      <<>> >>
                   \o (IF Len(cs.gates) = 0 THEN << <<>> >> ELSE ns.lines)]

\* build_description from wire_numbers = {} on, conv the converted specifications
build_description_number(cs, conv) ==
    IF ~conv.ok THEN build_description_raise(cs, "ValueError")
    ELSE build_description_text(cs, conv,
            BuildGates(cs.gates,
                ReserveOutputs(
                    NumberAll(
                        NumberAll([wire_numbers |-> EmptyDict, counter |-> 0, ok |-> TRUE,
                                   line |-> <<>>, lines |-> <<>>],
                                  conv.outs[1], cs.wires),
                        conv.outs[2], cs.wires),
                    conv.outs[3], Cardinality(cs.wires), 0),
                cs.wires))

\* the three convert_to_wires calls of build_description
build_description_convert(conv) == build_description_number(conv.cs, conv)

\* Circuit.build_description: [cs, ok, error, left_input_wires, right_input_wires,
\* output_wires, wire_numbers, text]
build_description(cs, left_inputs, right_inputs, outputs) ==
    build_description_convert(
        convert_all([cs |-> cs, ok |-> TRUE, outs |-> <<>>],
                    <<left_inputs, right_inputs, outputs>>))

----------------------------------------------------------------------------
(* The calls a client makes, and the arguments it passes *)

\* the circuit c as a call sees it
CS(c) == [wires |-> wires[c], wires_by_name |-> wires_by_name[c],
          gates |-> gates[c], nwires |-> nwires]

\* the bound of a run: at most w wires in all and g gates in a circuit
Within(w, g) == nwires' <= w /\ \A c \in Circuits : Len(gates'[c]) <= g

\* the circuit c after a call
Commit(c, cs) ==
    /\ wires' = [wires EXCEPT ![c] = cs.wires]
    /\ wires_by_name' = [wires_by_name EXCEPT ![c] = cs.wires_by_name]
    /\ gates' = [gates EXCEPT ![c] = cs.gates]
    /\ nwires' = cs.nwires

\* the strings a client passes: "p_0", "p_1", "p::2", and "p::" (whose size is
\* not an integer)
NameP0 == <<"p", "_", "0">>
NameP1 == <<"p", "_", "1">>
GroupP2 == <<"p", ":", ":", "2">>
GroupPx == <<"p", ":", ":">>
WireNames == {NameP0, NameP1}

WireSpecs == {<<"wire", w>> : w \in 1..nwires}
CompSpecs == {<<"comp", k.output>> : k \in comps}
NameSpecs == {<<"str", s>> : s \in WireNames \cup {GroupP2, GroupPx}}
EmptySpec == <<"list", <<>>>>
PairSpecs(S) == {<<"list", <<x, y>>>> : x \in S, y \in S}

\* the specifications passed to convert_to_wires
ConvertSpecs ==
    WireSpecs \cup CompSpecs \cup NameSpecs \cup {<<"bad">>, EmptySpec}
    \cup PairSpecs({<<"str", NameP1>>, <<"str", GroupP2>>})
    \cup {<<"list", <<x, <<"list", <<<<"str", NameP0>>, <<"bad">>>>>>>>>> : x \in WireSpecs}

\* the argument lists passed to a Component: wires and components in every
\* combination of one or two
WireArgs ==
    {<<x>> : x \in WireSpecs \cup CompSpecs}
    \cup {<<x, y>> : x \in WireSpecs \cup CompSpecs, y \in WireSpecs \cup CompSpecs}

\* the argument lists passed to a Component: WireArgs, names, and lists of the
\* wrong number or width
GateArgs ==
    WireArgs
    \cup { <<>>,
           << <<"str", NameP0>> >>,
           << <<"str", NameP1>>, <<"str", NameP0>> >>,
           << <<"str", GroupP2>>, <<"str", NameP0>> >>,
           << <<"str", NameP0>>, <<"list", <<>>>> >>,
           << <<"str", NameP0>>, <<"bad">> >>,
           << <<"str", NameP0>>, <<"str", NameP0>>, <<"str", NameP0>> >> }

\* the template files read by BristolCircuit
AndFile ==
    << <<str(1), str(3)>>, <<str(1), str(1), str(1)>>, <<>>,
       <<str(2), str(1), str(0), str(1), str(2), AND>> >>
ChainFile ==
    << <<str(2), str(4)>>, <<str(1), str(1), str(1)>>, <<>>,
       <<str(2), str(1), str(0), str(1), str(2), XOR>>,
       <<str(1), str(1), str(2), str(3), INV>> >>
ShortLineFile ==
    << <<str(2), str(3)>>, <<str(1), str(1), str(1)>>, <<>>,
       <<str(1), str(1), str(0), str(2), INV>>,
       <<INV>> >>

\* a description whose one output index is also its right-input index, as
\* build_description writes it for a wire declared as input and as output
OverlapFile ==
    << <<str(1), str(2)>>, <<str(1), str(1), str(1)>>, <<>>,
       <<str(1), str(1), str(1), str(1), INV>> >>

Files == {AndFile, ChainFile, ShortLineFile, OverlapFile}

\* the templates: the files BristolCircuit reads without raising
Templates == {BristolCircuit(f) : f \in {g \in Files : BristolCircuit(g).ok}}

\* what ret holds between two calls
Idle == [op |-> "idle"]

\* the path that save writes, before any file is there
NoFile == [exists |-> FALSE, content |-> <<>>]

Init ==
    /\ wires = [c \in Circuits |-> {}]
    /\ wires_by_name = [c \in Circuits |-> EmptyDict]
    /\ gates = [c \in Circuits |-> <<>>]
    /\ nwires = 0
    /\ comps = {}
    /\ file = NoFile
    /\ ret = Idle

\* c.get_wire(name) returned g
GetWire_return(c, name, g) ==
    /\ ret = Idle
    /\ Commit(c, g.cs)
    /\ comps' = comps
    /\ file' = file
    /\ ret' = [op |-> "get_wire", c |-> c, name |-> name, wire |-> g.wire]

\* c.get_wire(name)
GetWire(c, name) == GetWire_return(c, name, get_wire(CS(c), name))

\* c.convert_to_wires(spec) returned or raised r
ConvertToWires_return(c, spec, r) ==
    /\ ret = Idle
    /\ Commit(c, r.cs)
    /\ comps' = comps
    /\ file' = file
    /\ ret' = [op |-> "convert_to_wires", c |-> c, spec |-> spec,
               ok |-> r.ok, out |-> r.out]

\* c.convert_to_wires(spec)
ConvertToWires(c, spec) == ConvertToWires_return(c, spec, convert_to_wires(CS(c), spec))

\* cls(c, *args) returned or raised r
Construct_return(c, cls, args, r) ==
    /\ ret = Idle
    /\ Commit(c, r.cs)
    /\ comps' = IF r.ok THEN comps \cup {[circuit |-> c, output |-> r.output]}
                ELSE comps
    /\ file' = file
    /\ ret' = [op |-> "Component", c |-> c, cls |-> cls, nargs |-> Len(args),
               ok |-> r.ok, error |-> r.error,
               widths |-> [i \in 1..Len(r.inputs) |-> Len(r.inputs[i])],
               inputs |-> IF r.ok THEN r.inputs ELSE <<>>,
               output |-> r.output]

\* cls(c, *args) for a class of Component
Construct(c, cls, args) == Construct_return(c, cls, args, Component_init(CS(c), cls, args))

\* ANDGate(c, *args), XORGate(c, *args), INVGate(c, *args)
NewPrimitiveGate(c, cls, args) == Construct(c, cls, args)

\* parent(c, *args): BristolCircuit.__call__
NewSubcircuit(c, parent, args) == Construct(c, Subcircuit(parent), args)

\* c.build_description(left_inputs, right_inputs, outputs) returned or raised r
BuildDescription_return(c, r) ==
    /\ ret = Idle
    /\ Commit(c, r.cs)
    /\ comps' = comps
    /\ file' = file
    /\ ret' = [op |-> "build_description", c |-> c, ok |-> r.ok, error |-> r.error,
               left_input_wires |-> r.left_input_wires,
               right_input_wires |-> r.right_input_wires,
               output_wires |-> r.output_wires,
               wire_numbers |-> r.wire_numbers, text |-> r.text]

\* c.build_description(left_inputs, right_inputs, outputs)
BuildDescription(c, left_inputs, right_inputs, outputs) ==
    BuildDescription_return(c,
        build_description(CS(c), left_inputs, right_inputs, outputs))

\* c.add_gate(arg) for an argument <<"gate", g>> (a Gate) or of another type, which
\* fails the assert of add_gate: [cs, ok]
add_gate_call(cs, arg) ==
    IF arg[1] = "gate" THEN [cs |-> add_gate(cs, arg[2]), ok |-> TRUE]
    ELSE [cs |-> cs, ok |-> FALSE]

\* c.add_gate(arg) returned or raised r
AddGate_return(c, r) ==
    /\ ret = Idle
    /\ Commit(c, r.cs)
    /\ comps' = comps
    /\ file' = file
    /\ ret' = [op |-> "add_gate", c |-> c, ok |-> r.ok]

\* c.add_gate(arg)
AddGate(c, arg) == AddGate_return(c, add_gate_call(CS(c), arg))

\* the arguments passed to add_gate: INV gates made by the client on wires, and a
\* value that is no Gate
AddGateArgs ==
    {<<"gate", Gate(INV, <<w>>, w)>> : w \in 1..nwires} \cup {<<"bad">>}

\* open(path, "w"): the file is there and empty
open_w(f) == [exists |-> TRUE, content |-> <<>>]

\* f.write(description)
write(f, description) == [f EXCEPT !.content = @ \o description]

\* Save_return with a bug: the file is opened before the description is built
Save_return_early(c, r) ==
    /\ ret = Idle
    /\ Commit(c, r.cs)
    /\ comps' = comps
    /\ file' = IF r.ok THEN write(open_w(file), r.text) ELSE open_w(file)
    /\ ret' = [op |-> "save", c |-> c, ok |-> r.ok, error |-> r.error,
               description |-> r.text]

\* c.save(path, left_inputs, right_inputs, outputs), r what build_description
\* returned or raised: the file is opened and written when it returned
Save_return(c, r) ==
    /\ ret = Idle
    /\ Commit(c, r.cs)
    /\ comps' = comps
    /\ file' = IF r.ok THEN write(open_w(file), r.text) ELSE file
    /\ ret' = [op |-> "save", c |-> c, ok |-> r.ok, error |-> r.error,
               description |-> r.text]

\* c.save(path, left_inputs, right_inputs, outputs)
Save(c, left_inputs, right_inputs, outputs) ==
    Save_return(c, build_description(CS(c), left_inputs, right_inputs, outputs))

\* the specifications passed to build_description
LeftSpecs == {EmptySpec, <<"str", GroupP2>>} \cup WireSpecs
RightSpecs == {EmptySpec, <<"bad">>} \cup WireSpecs
OutputSpecs == {EmptySpec} \cup WireSpecs \cup CompSpecs \cup PairSpecs(WireSpecs)

\* the client drops the value returned (or catches the exception raised) and goes on
Return ==
    /\ ret # Idle
    /\ ret' = Idle
    /\ UNCHANGED <<wires, wires_by_name, gates, nwires, comps, file>>

Next ==
    \/ Return
    \/ \E c \in Circuits, name \in WireNames \cup {None} :
            GetWire(c, name) /\ Within(MaxWires, MaxGates)
    \/ \E c \in Circuits, spec \in ConvertSpecs :
            ConvertToWires(c, spec) /\ Within(MaxWires, MaxGates)
    \/ \E c \in Circuits, cls \in {ANDGate, XORGate, INVGate}, args \in GateArgs :
            NewPrimitiveGate(c, cls, args) /\ Within(MaxWires, MaxGates)
    \/ \E c \in Circuits, parent \in Templates, args \in GateArgs :
            NewSubcircuit(c, parent, args) /\ Within(MaxWires, MaxGates)

Spec == Init /\ [][Next]_vars

\* the numbering of a circuit built from wires and primitive gates; the other
\* circuit only supplies wires
NextNumbering ==
    \/ Return
    \/ \E c \in Circuits : GetWire(c, None) /\ Within(MaxWires, MaxGates)
    \/ \E cls \in {ANDGate, XORGate, INVGate}, args \in WireArgs :
            NewPrimitiveGate("c", cls, args) /\ Within(MaxWires, MaxGates)
    \/ \E l \in LeftSpecs, r \in RightSpecs, o \in OutputSpecs :
            BuildDescription("c", l, r, o) /\ Within(MaxWires, MaxGates)

SpecNumbering == Init /\ [][NextNumbering]_vars

\* the descriptions of a circuit built from wires and primitive gates, saved to
\* the file
NextSave ==
    \/ Return
    \/ \E c \in Circuits : GetWire(c, None) /\ Within(MaxWires, MaxGates)
    \/ \E cls \in {ANDGate, INVGate}, args \in WireArgs :
            NewPrimitiveGate("c", cls, args) /\ Within(MaxWires, MaxGates)
    \/ \E l \in LeftSpecs, r \in RightSpecs, o \in OutputSpecs :
            Save("c", l, r, o) /\ Within(MaxWires, MaxGates)

SpecSave == Init /\ [][NextSave]_vars

\* every operation of a circuit, on circuit "c"
NextAll ==
    \/ Return
    \/ \E name \in {NameP0, None} :
            GetWire("c", name) /\ Within(AllWires, AllGates)
    \/ \E arg \in AddGateArgs :
            AddGate("c", arg) /\ Within(AllWires, AllGates)
    \/ \E spec \in NameSpecs \cup {<<"bad">>} :
            ConvertToWires("c", spec) /\ Within(AllWires, AllGates)
    \/ \E cls \in {ANDGate, INVGate}, args \in GateArgs :
            NewPrimitiveGate("c", cls, args) /\ Within(AllWires, AllGates)
    \/ \E parent \in Templates, args \in GateArgs :
            NewSubcircuit("c", parent, args) /\ Within(AllWires, AllGates)
    \/ \E l \in {EmptySpec, <<"str", GroupP2>>}, r \in {EmptySpec, <<"bad">>},
          o \in {EmptySpec} \cup WireSpecs :
            BuildDescription("c", l, r, o) /\ Within(AllWires, AllGates)
    \/ \E r \in {EmptySpec, <<"bad">>}, o \in {EmptySpec} \cup WireSpecs :
            Save("c", <<"str", NameP0>>, r, o) /\ Within(AllWires, AllGates)

SpecAll == Init /\ [][NextAll]_vars

\* the demonstration program (__main__) and its variations: AND and XOR gates over
\* the inputs "l_0", "l_1" and "r_0", "r_1" and over earlier gates, and the
\* description with its inputs "l::2" and "r::2"
NameL0 == <<"l", "_", "0">>
NameL1 == <<"l", "_", "1">>
NameR0 == <<"r", "_", "0">>
NameR1 == <<"r", "_", "1">>
GroupL2 == <<"l", ":", ":", "2">>
GroupR2 == <<"r", ":", ":", "2">>

MainArgs ==
    { << <<"str", NameL0>>, <<"str", NameL1>> >>,
      << <<"str", NameR0>>, <<"str", NameR1>> >> }
    \cup {a \in {<<x, y>> : x \in CompSpecs, y \in CompSpecs} : a[1][2][1] < a[2][2][1]}

MainOutputs == CompSpecs \cup PairSpecs(CompSpecs)

NextMain ==
    \/ Return
    \/ \E cls \in {ANDGate, XORGate}, args \in MainArgs :
            NewPrimitiveGate("c", cls, args) /\ Within(MainWires, MainGates)
    \/ \E o \in MainOutputs :
            BuildDescription("c", <<"str", GroupL2>>, <<"str", GroupR2>>, o)
            /\ Within(MainWires, MainGates)

SpecMain == Init /\ [][NextMain]_vars

----------------------------------------------------------------------------
(* Vocabulary of the properties of build_description.  The circuit is as it  *)
(* was when the description was built: no call has been made since.          *)

\* build_description returned a description
Built == ret.op = "build_description" /\ ret.ok

\* len(self.wires) at serialization
Total == Cardinality(wires[ret.c])

DupFree(seq) == \A i, j \in 1..Len(seq) : i # j => seq[i] # seq[j]

Elems(seq) == {seq[i] : i \in 1..Len(seq)}

\* the j-th wire a gate refers to: its input wires in order, then its output wire
Operand(gate, j) ==
    IF j <= Len(gate.input_wires) THEN gate.input_wires[j] ELSE gate.output_wire

Operands(gate) == [j \in 1..(Len(gate.input_wires) + 1) |-> Operand(gate, j)]

\* the wires the gates of the circuit refer to
GateWires == UNION {Elems(Operands(gates[ret.c][k])) : k \in 1..Len(gates[ret.c])}

\* the line of the k-th gate in the text returned
GateLine(k) == ret.text[3 + k]

\* the id printed for the j-th wire of the k-th gate
Printed(k, j) == GateLine(k)[2 + j]

\* wire w is rendered with id n: every gate line prints n where the gate has w
RenderedAs(w, n) ==
    \A k \in 1..Len(gates[ret.c]) :
        \A j \in 1..(Len(gates[ret.c][k].input_wires) + 1) :
            Operand(gates[ret.c][k], j) = w => Printed(k, j) = str(n)

\* the second header line prints the lengths of the three resolved sequences
HeaderWidths ==
    ret.text[2] = <<str(Len(ret.left_input_wires)), str(Len(ret.right_input_wires)),
                    str(Len(ret.output_wires))>>

\* C1: for every circuit and every left/right input specification passed to
\* build_description, the i-th wire of the resolved left-input sequence is rendered
\* with id i and the i-th wire of the resolved right-input sequence with id L+i,
\* L and R being the lengths printed on the second header line.
C1_InputIds ==
    Built =>
        /\ HeaderWidths
        /\ \A i \in 1..Len(ret.left_input_wires) :
              RenderedAs(ret.left_input_wires[i], i - 1)
        /\ \A i \in 1..Len(ret.right_input_wires) :
              RenderedAs(ret.right_input_wires[i], Len(ret.left_input_wires) + i - 1)

\* C2: for every circuit and every output specification passed to
\* build_description, the i-th wire of the resolved output sequence is rendered with
\* id total-O+i, total being the size of the wire set at serialization (the wire
\* count of the first header line) and O the length of the output sequence.
C2_OutputIds ==
    Built =>
        /\ HeaderWidths
        /\ ret.text[1][2] = str(Total)
        /\ \A i \in 1..Len(ret.output_wires) :
              RenderedAs(ret.output_wires[i], Total - Len(ret.output_wires) + i - 1)

\* C3: in the text returned by build_description every id printed is an integer in
\* [0, wire_count), and no two distinct wires are printed with the same id.
C3_UniqueIds ==
    Built =>
        \A k \in 1..Len(gates[ret.c]) :
            \A j \in 1..(Len(gates[ret.c][k].input_wires) + 1) :
                /\ int(Printed(k, j)).ok
                /\ int(Printed(k, j)).val < int(ret.text[1][2]).val
                /\ \A m \in 1..Len(gates[ret.c]) :
                      \A n \in 1..(Len(gates[ret.c][m].input_wires) + 1) :
                          Printed(k, j) = Printed(m, n)
                          => Operand(gates[ret.c][k], j) = Operand(gates[ret.c][m], n)

\* the wires of seq that are not in skip, each once, in the order of their first
\* occurrence
RECURSIVE FirstUse(_, _)
FirstUse(seq, skip) ==
    IF Len(seq) = 0 THEN <<>>
    ELSE IF Head(seq) \in skip THEN FirstUse(Tail(seq), skip)
    ELSE <<Head(seq)>> \o FirstUse(Tail(seq), skip \cup {Head(seq)})

\* the wires the gates refer to, gate after gate in append order
RECURSIVE GateWalk(_)
GateWalk(gs) == IF Len(gs) = 0 THEN <<>> ELSE Operands(Head(gs)) \o GateWalk(Tail(gs))

\* the declared inputs and outputs of the description
Declared ==
    Elems(ret.left_input_wires) \cup Elems(ret.right_input_wires)
        \cup Elems(ret.output_wires)

\* the internal wires in first-reference order of the gate walk
InternalOrder == FirstUse(GateWalk(gates[ret.c]), Declared)

\* the id of the k-th internal wire of the gate walk: L+R+k (from 0)
InternalId(k) == Len(ret.left_input_wires) + Len(ret.right_input_wires) + k - 1

\* C4: every wire that is neither a declared input nor a declared output receives an
\* id in [L+R, total-O), and these ids are handed out consecutively from L+R in
\* first-reference order of the gate walk (gates in append order, the input wires of
\* a gate before its output wire).
C4_InternalIds ==
    Built =>
        \A k \in 1..Len(InternalOrder) :
            /\ RenderedAs(InternalOrder[k], InternalId(k))
            /\ InternalId(k) < Total - Len(ret.output_wires)

\* wire w is numbered n, and rendered so
NumberedAs(w, n) ==
    /\ w \in DOMAIN ret.wire_numbers
    /\ ret.wire_numbers[w] = n
    /\ RenderedAs(w, n)

\* the resolved left, right and output lists are lists of wires of the circuit,
\* duplicate-free and pairwise disjoint, and every allocated wire is a declared
\* input, a declared output or an operand of a gate
WellDeclared ==
    /\ Declared \subseteq wires[ret.c]
    /\ DupFree(ret.left_input_wires \o ret.right_input_wires \o ret.output_wires)
    /\ wires[ret.c] \subseteq Declared \cup GateWires

\* the circuit and the outputs of the scenario: x = AND(l_0, l_1), y = AND(r_0, r_1),
\* z1 = XOR(x, y), z2 = AND(x, y), outputs [z1, z2]
IsMain ==
    /\ Len(gates[ret.c]) = 4
    /\ {NameL0, NameL1, NameR0, NameR1} \subseteq DOMAIN wires_by_name[ret.c]
    /\ gates[ret.c][1].operation = AND
    /\ gates[ret.c][1].input_wires =
          <<wires_by_name[ret.c][NameL0], wires_by_name[ret.c][NameL1]>>
    /\ gates[ret.c][2].operation = AND
    /\ gates[ret.c][2].input_wires =
          <<wires_by_name[ret.c][NameR0], wires_by_name[ret.c][NameR1]>>
    /\ gates[ret.c][3].operation = XOR
    /\ gates[ret.c][3].input_wires =
          <<gates[ret.c][1].output_wire, gates[ret.c][2].output_wire>>
    /\ gates[ret.c][4].operation = AND
    /\ gates[ret.c][4].input_wires = gates[ret.c][3].input_wires
    /\ ret.output_wires = <<gates[ret.c][3].output_wire, gates[ret.c][4].output_wire>>

\* the description of the scenario
MainText ==
    << <<<<"4">>, <<"8">>>>,
       <<<<"2">>, <<"2">>, <<"2">>>>,
       <<>>,
       <<<<"2">>, <<"1">>, <<"0">>, <<"1">>, <<"4">>, <<"A", "N", "D">>>>,
       <<<<"2">>, <<"1">>, <<"2">>, <<"3">>, <<"5">>, <<"A", "N", "D">>>>,
       <<<<"2">>, <<"1">>, <<"4">>, <<"5">>, <<"6">>, <<"X", "O", "R">>>>,
       <<<<"2">>, <<"1">>, <<"4">>, <<"5">>, <<"7">>, <<"A", "N", "D">>>> >>

\* C5: for a circuit whose resolved left, right and output wire lists are
\* duplicate-free and pairwise disjoint and in which every allocated wire is a
\* declared input, a declared output or an operand of a gate, build_description
\* numbers the wires by a bijection from the wire set onto [0, total): left inputs
\* 0..L-1, right inputs L..L+R-1, internal wires from L+R in first-use order,
\* outputs total-O..total-1.  The circuit x = AND(l_0, l_1), y = AND(r_0, r_1),
\* z1 = XOR(x, y), z2 = AND(x, y) with left l::2, right r::2 and outputs [z1, z2]
\* yields the headers '4 8' and '2 2 2' and the gate lines '2 1 0 1 4 AND',
\* '2 1 2 3 5 AND', '2 1 4 5 6 XOR', '2 1 4 5 7 AND'.
C5_Bijection ==
    /\ (Built /\ WellDeclared) =>
          /\ DOMAIN ret.wire_numbers = wires[ret.c]
          /\ {ret.wire_numbers[w] : w \in wires[ret.c]} = 0..(Total - 1)
          /\ \A i \in 1..Len(ret.left_input_wires) :
                NumberedAs(ret.left_input_wires[i], i - 1)
          /\ \A i \in 1..Len(ret.right_input_wires) :
                NumberedAs(ret.right_input_wires[i], Len(ret.left_input_wires) + i - 1)
          /\ \A k \in 1..Len(InternalOrder) :
                NumberedAs(InternalOrder[k], InternalId(k))
          /\ \A i \in 1..Len(ret.output_wires) :
                NumberedAs(ret.output_wires[i],
                           Total - Len(ret.output_wires) + i - 1)
    /\ (Built /\ IsMain) => ret.text = MainText

\* the scenario has been built and serialized
C5_Witness == Built /\ IsMain /\ WellDeclared /\ Len(InternalOrder) = 2

\* C6: the text returned by build_description declares a gate count equal to the
\* number of gates appended to the circuit and contains exactly that many gate
\* lines, and the k-th gate line carries the operation and the input arity of the
\* k-th appended gate, whatever ids the numbering assigns.
C6_EmissionOrder ==
    Built =>
        /\ ret.text[1][1] = str(Len(gates[ret.c]))
        /\ Len(SelectSeq(SubSeq(ret.text, 3, Len(ret.text)), LAMBDA l : l # <<>>))
              = Len(gates[ret.c])
        /\ \A k \in 1..Len(gates[ret.c]) :
              /\ GateLine(k)[Len(GateLine(k))] = gates[ret.c][k].operation
              /\ GateLine(k)[1] = str(Len(gates[ret.c][k].input_wires))
              /\ Len(GateLine(k)) = Len(gates[ret.c][k].input_wires) + 4

\* a description of two gates of different operations in which the first gate's
\* output is printed with a larger id than the second's
C6_Witness ==
    /\ Built
    /\ Len(gates[ret.c]) = 2
    /\ gates[ret.c][1].operation # gates[ret.c][2].operation
    /\ int(Printed(1, Len(gates[ret.c][1].input_wires) + 1)).val
          > int(Printed(2, Len(gates[ret.c][2].input_wires) + 1)).val

----------------------------------------------------------------------------
(* Properties of the calls that build a circuit.  A step that leaves ret     *)
(* other than Idle is the call ret describes: the unprimed variables are the *)
(* circuit before the call, the primed ones the circuit after it.            *)

\* every name registered before the step is bound to the same wire after it
RegistryKept ==
    \A c \in Circuits : \A n \in DOMAIN wires_by_name[c] :
        n \in DOMAIN wires_by_name'[c] /\ wires_by_name'[c][n] = wires_by_name[c][n]

\* the step is a call get_wire(n) with a name n
GetWireNamed == ret'.op = "get_wire" /\ ret'.name # None

\* C7: get_wire(n) returns the same wire on every call whatever get_wire,
\* convert_to_wires or Component constructions happen in between: the wire bound to
\* a name never changes, get_wire(n) returns the wire bound to n, only a call for a
\* name not yet bound adds a wire to the wire set, and a call for a bound name
\* leaves the wire set, the name registry and the gate list unchanged.
C7_GetWireIdempotent ==
    [][/\ RegistryKept
       /\ GetWireNamed =>
            /\ ret'.name \in DOMAIN wires_by_name'[ret'.c]
            /\ ret'.wire = wires_by_name'[ret'.c][ret'.name]
            /\ IF ret'.name \in DOMAIN wires_by_name[ret'.c]
               THEN UNCHANGED <<wires, wires_by_name, gates>>
               ELSE /\ ret'.wire \notin wires[ret'.c]
                    /\ wires'[ret'.c] = wires[ret'.c] \cup {ret'.wire}]_vars

\* get_wire(n) has returned a wire that is not the newest one, in a circuit that
\* holds a gate: a repeated call, after other wires and a Component were made
C7_Witness ==
    /\ ret.op = "get_wire"
    /\ ret.name # None
    /\ ret.wire < nwires
    /\ Len(gates[ret.c]) > 0

\* the names a string denotes: p_0, p_1 for "p::2", the string itself for a bare one
ExpectedNames(s) == IF s = GroupP2 THEN <<NameP0, NameP1>> ELSE <<s>>

\* the step is a call convert_to_wires(s) with s = "p::2", "p_0" or "p_1"
ConvertString ==
    /\ ret'.op = "convert_to_wires"
    /\ ret'.spec[1] = "str"
    /\ ret'.spec[2] \in WireNames \cup {GroupP2}

\* out is what get_wire returns for each of names in order: the wire bound to the
\* name before the call if there is one, otherwise a wire that was not in the wire
\* set, bound to the name from then on
AsGetWire(c, names, out) ==
    /\ Len(out) = Len(names)
    /\ \A i \in 1..Len(names) :
          /\ names[i] \in DOMAIN wires_by_name'[c]
          /\ out[i] = wires_by_name'[c][names[i]]
          /\ IF names[i] \in DOMAIN wires_by_name[c]
             THEN out[i] = wires_by_name[c][names[i]]
             ELSE out[i] \notin wires[c] /\ out[i] \in wires'[c]

\* C8: convert_to_wires("p::N") returns exactly the N wires get_wire("p_0"), ...,
\* get_wire("p_(N-1)") in that order, pairwise distinct, and a bare string "p"
\* returns the single wire get_wire("p"); so a wire reached as "p_i" and through the
\* group "p::N", in either order, is the same wire.
C8_GroupNames ==
    [][ConvertString =>
          /\ ret'.ok
          /\ AsGetWire(ret'.c, ExpectedNames(ret'.spec[2]), ret'.out)
          /\ DupFree(ret'.out)]_vars

\* "p::2" has been converted in a circuit where p_1 was reached before p_0
C8_Witness ==
    /\ ret.op = "convert_to_wires"
    /\ ret.spec = <<"str", GroupP2>>
    /\ ret.ok
    /\ ret.out[2] < ret.out[1]

\* the construction r had a number of input specifications other than
\* len(input_sizes), or a resolved input of a length other than its declared size
Mismatch(r) ==
    \/ r.nargs # Len(r.cls.input_sizes)
    \/ \E i \in 1..Len(r.widths) :
          i <= Len(r.cls.input_sizes) /\ r.widths[i] # r.cls.input_sizes[i]

\* the wires the step added to circuit c are the wires of the names it registered
OnlyNamedWiresAdded(c) ==
    wires'[c] \ wires[c] =
        {wires_by_name'[c][n] : n \in DOMAIN wires_by_name'[c] \ DOMAIN wires_by_name[c]}

\* C9: constructing a Component (AND, XOR, INV or Subcircuit) fails whenever the
\* number of input specifications differs from len(input_sizes) or a resolved input
\* sequence has a length other than its declared size; then no gate is appended, no
\* output wire is allocated (the only wires added are those of the names the input
\* specifications registered) and no component results.
C9_ArityEnforced ==
    [][(ret'.op = "Component" /\ Mismatch(ret')) =>
          /\ ~ret'.ok
          /\ ret'.error \in {"Wrong number of inputs to component!",
                             "Bad input length!", "ValueError"}
          /\ ret'.output = <<>>
          /\ gates' = gates
          /\ comps' = comps
          /\ \A c \in Circuits : OnlyNamedWiresAdded(c)]_vars

\* a construction on an input of the wrong width has failed in a circuit that holds
\* a gate
C9_Witness ==
    /\ ret.op = "Component"
    /\ ret.error = "Bad input length!"
    /\ Len(gates[ret.c]) > 0

\* the step is a Subcircuit construction that returned
Instantiated == ret'.op = "Component" /\ ret'.cls.kind = "subcircuit" /\ ret'.ok

\* gate g has the operation of the description desc and as many inputs as desc
\* lists between its two counts and its output
FromDescription(g, desc) ==
    /\ g.operation = desc[Len(desc)]
    /\ Len(g.input_wires) = Len(desc) - 4

\* C10: instantiating a template with gate_count G as a Subcircuit in a host circuit
\* that holds n gates leaves the first n gates unchanged and appends exactly G gates,
\* the j-th of which has the operation and the number of inputs of the j-th gate
\* description of the template.
C10_TemplateOrder ==
    [][Instantiated =>
          /\ Len(gates'[ret'.c]) = Len(gates[ret'.c]) + ret'.cls.parent.gate_count
          /\ SubSeq(gates'[ret'.c], 1, Len(gates[ret'.c])) = gates[ret'.c]
          /\ \A j \in 1..ret'.cls.parent.gate_count :
                FromDescription(gates'[ret'.c][Len(gates[ret'.c]) + j],
                                ret'.cls.parent.gate_descriptions[j])]_vars

\* a template of two gates of different operations and arities has been instantiated
C10_Witness ==
    /\ ret.op = "Component"
    /\ ret.cls.kind = "subcircuit"
    /\ ret.ok
    /\ ret.cls.parent.gate_count = 2
    /\ Len(gates[ret.c]) = 2
    /\ gates[ret.c][1].operation = XOR
    /\ gates[ret.c][2].operation = INV


----------------------------------------------------------------------------
(* Properties of Subcircuit instantiation.  In a step with Instantiated the  *)
(* template is ret'.cls.parent, the host circuit is ret'.c, the gates        *)
(* appended are those after the first Len(gates[ret'.c]).                    *)

\* the symbolic indices of a gate description: its fields between the two counts
\* and the operation, the inputs and then the output
Indices(desc) == SubSeq(desc, 3, Len(desc) - 1)

\* the index is outside the left-input and right-input ranges of the template
OutsideInputs(parent, index) ==
    int(index).val >= parent.left_input_wire_count + parent.right_input_wire_count

\* wire w did not exist before the step: it is no wire of any circuit, no operand of
\* a gate and no output of a component
Fresh(w) ==
    /\ w > nwires
    /\ \A c \in Circuits : w \notin wires[c]
    /\ \A c \in Circuits : \A k \in 1..Len(gates[c]) : w \notin Elems(Operands(gates[c][k]))
    /\ \A k \in comps : w \notin Elems(k.output)

\* every index of desc outside the input ranges is, in gate g, a wire that did not
\* exist before the step
FreshOutsideInputs(parent, desc, g) ==
    \A p \in 1..Len(Indices(desc)) :
        OutsideInputs(parent, Indices(desc)[p]) => Fresh(Operand(g, p))

\* C11: every Subcircuit instantiation maps each symbolic index of the template
\* outside the left-input and right-input ranges (internal and output indices) to a
\* wire that did not exist before the instantiation began, so that it shares no
\* internal wire and no output wire with the gates and components made before it.
C11_FreshInternals ==
    [][Instantiated =>
          /\ \A j \in 1..ret'.cls.parent.gate_count :
                FreshOutsideInputs(ret'.cls.parent,
                                   ret'.cls.parent.gate_descriptions[j],
                                   gates'[ret'.c][Len(gates[ret'.c]) + j])
          /\ \A i \in 1..Len(ret'.output) : Fresh(ret'.output[i])]_vars

\* a template has been instantiated in a host that held a gate, on an input that is
\* the output of that gate
C11_Witness ==
    /\ ret.op = "Component"
    /\ ret.cls.kind = "subcircuit"
    /\ ret.ok
    /\ Len(gates[ret.c]) = 2
    /\ ret.cls.parent.gate_count = 1
    /\ gates[ret.c][2].input_wires[1] = gates[ret.c][1].output_wire
    /\ gates[ret.c][2].output_wire # gates[ret.c][1].output_wire


\* the index is the decimal string of base + i for the i-th of n wires (i from 0)
IndexOf(index, base, n, i) == i \in 0..(n - 1) /\ index = str(base + i)

InRange(index, base, n) == \E i \in 0..(n - 1) : IndexOf(index, base, n, i)

\* every index of the range of n indices from base is, in gate g, the wire of ws at
\* its place in the range
RangeMapped(desc, g, base, n, ws) ==
    \A p \in 1..Len(Indices(desc)) : \A i \in 0..(n - 1) :
        IndexOf(Indices(desc)[p], base, n, i) => Operand(g, p) = ws[i + 1]

\* as RangeMapped, for the indices that are not in the range of n2 indices from base2
RangeMappedOutside(desc, g, base, n, ws, base2, n2) ==
    \A p \in 1..Len(Indices(desc)) : \A i \in 0..(n - 1) :
        (IndexOf(Indices(desc)[p], base, n, i) /\ ~InRange(Indices(desc)[p], base2, n2))
        => Operand(g, p) = ws[i + 1]

\* the first index of the output range of a template
OutputBase(parent) == parent.wire_count - parent.output_wire_count

\* the gate appended for the j-th description in the step
Appended(j) == gates'[ret'.c][Len(gates[ret'.c]) + j]

\* an index is one wire at all of its occurrences in the gates appended in the step
OneWirePerIndex(parent) ==
    \A j, k \in 1..parent.gate_count :
        \A p \in 1..Len(Indices(parent.gate_descriptions[j])) :
            \A q \in 1..Len(Indices(parent.gate_descriptions[k])) :
                Indices(parent.gate_descriptions[j])[p] = Indices(parent.gate_descriptions[k])[q]
                => Operand(Appended(j), p) = Operand(Appended(k), q)

\* the output indices are the output wires of the instantiation
OutputsMapped(parent) ==
    \A j \in 1..parent.gate_count :
        RangeMapped(parent.gate_descriptions[j], Appended(j), OutputBase(parent),
                    parent.output_wire_count, ret'.output)

\* C12 (as amended): in the gates appended by one Subcircuit instantiation of a
\* template with widths L, R, O and wire_count W, every occurrence of index W-O+i
\* (0 <= i < O) is the i-th output wire of the instantiation; every occurrence of
\* index i (0 <= i < L) that is not also an output index is the i-th resolved
\* left-input wire, and every occurrence of index L+i (0 <= i < R) that is not also
\* an output index is the i-th resolved right-input wire; any index is one and the
\* same wire at all of its occurrences within the instantiation.
C12_IndexMapping ==
    [][Instantiated =>
          /\ OutputsMapped(ret'.cls.parent)
          /\ \A j \in 1..ret'.cls.parent.gate_count :
                /\ RangeMappedOutside(ret'.cls.parent.gate_descriptions[j], Appended(j),
                                      0, ret'.cls.parent.left_input_wire_count,
                                      ret'.inputs[1], OutputBase(ret'.cls.parent),
                                      ret'.cls.parent.output_wire_count)
                /\ RangeMappedOutside(ret'.cls.parent.gate_descriptions[j], Appended(j),
                                      ret'.cls.parent.left_input_wire_count,
                                      ret'.cls.parent.right_input_wire_count,
                                      ret'.inputs[2], OutputBase(ret'.cls.parent),
                                      ret'.cls.parent.output_wire_count)
          /\ OneWirePerIndex(ret'.cls.parent)]_vars

\* C12 as stated: every occurrence of an index of the left-input range is the left
\* input, of the right-input range the right input, of the output range the output
\* wire, and any index is one wire at all of its occurrences.
C12_IndexMapping_Original ==
    [][Instantiated =>
          /\ OutputsMapped(ret'.cls.parent)
          /\ \A j \in 1..ret'.cls.parent.gate_count :
                /\ RangeMapped(ret'.cls.parent.gate_descriptions[j], Appended(j),
                               0, ret'.cls.parent.left_input_wire_count, ret'.inputs[1])
                /\ RangeMapped(ret'.cls.parent.gate_descriptions[j], Appended(j),
                               ret'.cls.parent.left_input_wire_count,
                               ret'.cls.parent.right_input_wire_count, ret'.inputs[2])
          /\ OneWirePerIndex(ret'.cls.parent)]_vars

\* a template whose output index is also its right-input index has been
\* instantiated on two different wires
C12_Witness ==
    /\ ret.op = "Component"
    /\ ret.cls.kind = "subcircuit"
    /\ ret.ok
    /\ OutputBase(ret.cls.parent)
          < ret.cls.parent.left_input_wire_count + ret.cls.parent.right_input_wire_count
    /\ ret.inputs[1] # ret.inputs[2]


----------------------------------------------------------------------------
(* Further properties of build_description and of the circuit's state *)

\* C13: whenever a wire referenced during serialization, an operand of a gate or a
\* wire of the resolved left-input, right-input or output specification, is not a
\* member of the circuit's wire set, build_description fails and returns no
\* description: a description returned refers to wires of the circuit only.
C13_MembersOnly == Built => (Declared \cup GateWires) \subseteq wires[ret.c]


\* the text of a description of a circuit of n gates is complete: two header
\* lines, a blank line and the gate lines (one blank line when there is no gate)
Complete(text, n) == Len(text) = 3 + (IF n = 0 THEN 1 ELSE n)

\* C14: save writes to the file only after build_description has returned the
\* complete description: if build_description fails the file is neither created,
\* truncated nor modified, and if it succeeds the file content is exactly the
\* description returned.
C14_SaveAfterBuild ==
    [][ret'.op = "save" =>
          IF ret'.ok
          THEN /\ file'.exists
               /\ file'.content = ret'.description
               /\ Complete(ret'.description, Len(gates'[ret'.c]))
          ELSE file' = file]_vars

\* a save has failed after an earlier save had written a description of a gate
C14_Witness ==
    /\ ret.op = "save"
    /\ ~ret.ok
    /\ file.exists
    /\ Len(file.content) = 4
    /\ file.content[4] # <<>>


\* C15: after any sequence of get_wire calls and Component constructions on one or
\* more circuits, every input wire and output wire of every gate in a circuit's gate
\* list is a member of that circuit's wire set, and no wire is a member of two
\* circuits' wire sets.
C15_GateWiresOwned ==
    /\ \A c \in Circuits : \A k \in 1..Len(gates[c]) :
          Elems(Operands(gates[c][k])) \subseteq wires[c]
    /\ \A c, d \in Circuits : c # d => wires[c] \cap wires[d] = {}


\* the wires of the circuit that are no declared input, no declared output and no
\* operand of a gate
Unused == wires[ret.c] \ (Declared \cup GateWires)

\* the ids printed in the gate lines
PrintedIds ==
    UNION {{Printed(k, j) : j \in 1..(Len(gates[ret.c][k].input_wires) + 1)} :
           k \in 1..Len(gates[ret.c])}

\* the ids from L+R up to total-O that no gate line prints
Gaps ==
    {n \in (Len(ret.left_input_wires) + Len(ret.right_input_wires))
               ..(Total - Len(ret.output_wires) - 1) : str(n) \notin PrintedIds}

\* the declared lists are lists of wires of the circuit, duplicate-free and
\* pairwise disjoint: the numbering of the wires in use is the one of C5
UsedWellDeclared ==
    /\ Declared \subseteq wires[ret.c]
    /\ DupFree(ret.left_input_wires \o ret.right_input_wires \o ret.output_wires)

\* C16: wires allocated with get_wire() that are never a declared input, a declared
\* output or a gate operand do not disturb the other wires: in the description the
\* other wires still have pairwise distinct ids, inputs at 0..L+R-1, internal wires
\* consecutively from L+R, outputs at total-O..total-1, where total, the wire count
\* printed, includes the k unused wires, and exactly k ids of [L+R, total-O) are
\* never printed.
C16_UnusedWires ==
    (Built /\ UsedWellDeclared) =>
        /\ ret.text[1][2] = str(Cardinality(Declared \cup GateWires) + Cardinality(Unused))
        /\ C3_UniqueIds
        /\ \A i \in 1..Len(ret.left_input_wires) :
              RenderedAs(ret.left_input_wires[i], i - 1)
        /\ \A i \in 1..Len(ret.right_input_wires) :
              RenderedAs(ret.right_input_wires[i], Len(ret.left_input_wires) + i - 1)
        /\ \A k \in 1..Len(InternalOrder) :
              RenderedAs(InternalOrder[k], InternalId(k))
        /\ \A i \in 1..Len(ret.output_wires) :
              RenderedAs(ret.output_wires[i],
                         int(ret.text[1][2]).val - Len(ret.output_wires) + i - 1)
        /\ Cardinality(Gaps) = Cardinality(Unused)

\* a description of a circuit with a declared input, an internal wire and an unused
\* wire that was allocated before a wire in use
C16_Witness ==
    /\ Built
    /\ UsedWellDeclared
    /\ Len(ret.left_input_wires) >= 1
    /\ Len(InternalOrder) >= 1
    /\ \E u \in Unused : \E w \in GateWires : u < w


\* C17: within one build_description call a wire is printed with the same id at
\* every occurrence: the output of an earlier gate that is an input of a later gate,
\* or a declared input or output that is a gate operand, has one id throughout the
\* text.
C17_OneIdPerWire ==
    Built =>
        \A k, m \in 1..Len(gates[ret.c]) :
            \A j \in 1..(Len(gates[ret.c][k].input_wires) + 1) :
                \A n \in 1..(Len(gates[ret.c][m].input_wires) + 1) :
                    Operand(gates[ret.c][k], j) = Operand(gates[ret.c][m], n)
                    => Printed(k, j) = Printed(m, n)

\* a description in which the output of the first gate is an input of the second
\* and a declared input or output
C17_Witness ==
    /\ Built
    /\ Len(gates[ret.c]) = 2
    /\ gates[ret.c][1].output_wire \in Elems(gates[ret.c][2].input_wires)
    /\ gates[ret.c][1].output_wire \in Declared


\* the gate list of c before the step is a prefix of the one after it
GatesKept(c) ==
    /\ Len(gates[c]) <= Len(gates'[c])
    /\ SubSeq(gates'[c], 1, Len(gates[c])) = gates[c]

\* C18: every operation on a circuit (get_wire, add_gate, convert_to_wires,
\* Component construction whether it succeeds or fails, build_description, save)
\* only grows its state: the wire set before is a subset of the wire set after, the
\* gate list before is a prefix of the gate list after with every existing gate
\* unchanged, and a name once registered stays bound to the same wire.
C18_OnlyGrows ==
    [][/\ \A c \in Circuits : wires[c] \subseteq wires'[c] /\ GatesKept(c)
       /\ RegistryKept]_vars

\* a Subcircuit construction has raised after it had appended a gate to a circuit
\* that held one
C18_Witness ==
    /\ ret.op = "Component"
    /\ ~ret.ok
    /\ ret.error = "IndexError"
    /\ Len(gates[ret.c]) = 2


\* the step is a construction of ANDGate, XORGate or INVGate that returned
Constructed == ret'.op = "Component" /\ ret'.cls.kind = "primitive" /\ ret'.ok

\* the wires of the names that the step registered in circuit c
NewlyNamed(c) ==
    {wires_by_name'[c][n] : n \in DOMAIN wires_by_name'[c] \ DOMAIN wires_by_name[c]}

\* the number of inputs of a primitive gate: two for AND and XOR, one for INV
PrimitiveArity(operation) == IF operation = INV THEN 1 ELSE 2

\* C19: a successful construction of ANDGate or XORGate on two single-wire inputs,
\* or of INVGate on one single-wire input, allocates exactly one fresh output wire
\* and appends exactly one gate whose operation is AND, XOR or INV respectively,
\* whose input wires are the resolved input wires in argument order and whose
\* output wire is that fresh wire.
C19_PrimitiveGate ==
    [][Constructed =>
          /\ ret'.cls.operation \in {AND, XOR, INV}
          /\ Len(ret'.inputs) = PrimitiveArity(ret'.cls.operation)
          /\ \A i \in 1..Len(ret'.inputs) : Len(ret'.inputs[i]) = 1
          /\ Len(ret'.output) = 1
          /\ Fresh(ret'.output[1])
          /\ ret'.output[1] \notin NewlyNamed(ret'.c)
          /\ wires'[ret'.c] = wires[ret'.c] \cup NewlyNamed(ret'.c) \cup {ret'.output[1]}
          /\ nwires' = nwires + Cardinality(NewlyNamed(ret'.c)) + 1
          /\ gates'[ret'.c] =
                Append(gates[ret'.c],
                       [operation |-> ret'.cls.operation,
                        input_wires |-> [i \in 1..Len(ret'.inputs) |-> ret'.inputs[i][1]],
                        output_wire |-> ret'.output[1]])]_vars

\* an XOR gate has been constructed on two wires given in the order opposite to
\* their allocation
C19_Witness ==
    /\ ret.op = "Component"
    /\ ret.ok
    /\ ret.cls.kind = "primitive"
    /\ ret.cls.operation = XOR
    /\ ret.inputs[1][1] > ret.inputs[2][1]


----------------------------------------------------------------------------
(* A description written, read back as a template, instantiated in a fresh
   circuit and described again *)

\* Circuit.__init__: a circuit with no wire, no name and no gate; n wires have been
\* allocated so far in the program
Circuit(n) == [wires |-> {}, wires_by_name |-> EmptyDict, gates |-> <<>>, nwires |-> n]

\* "%s::%i" % (prefix, size), a group name
GroupName(prefix, size) == <<"str", <<prefix, ":", ":">> \o str(size)>>

\* the inputs "l::L" and "r::R" for a template of L left and R right inputs
TemplateInputs(parent) ==
    << GroupName("l", parent.left_input_wire_count),
       GroupName("r", parent.right_input_wire_count) >>

\* f.build_description("l::L", "r::R", S), S what parent(f, "l::L", "r::R") returned
\* or raised
Redescribe(parent, S) ==
    IF ~S.ok THEN build_description_raise(S.cs, S.error)
    ELSE build_description(S.cs, TemplateInputs(parent)[1], TemplateInputs(parent)[2],
                           <<"comp", S.output>>)

\* S = parent(Circuit(), "l::L", "r::R") and the description of its circuit, parent
\* what BristolCircuit(path) returned or raised, n the wires allocated so far
Reinstantiate(parent, n) ==
    IF ~parent.ok THEN build_description_raise(Circuit(n), "AssertionError")
    ELSE Redescribe(parent,
            Component_init(Circuit(n), Subcircuit(parent), TemplateInputs(parent)))

\* c.save(path, left_inputs, right_inputs, outputs) returned or raised r, and f the
\* file it left; when it returned, the client goes on with
\* BristolCircuit(path)(Circuit(), "l::L", "r::R") and describes the new circuit:
\* again is what that description returned or raised. The new circuit is a local of
\* the client and is dropped afterwards.
RoundTrip_return(c, r, f) ==
    /\ ret = Idle
    /\ Commit(c, r.cs)
    /\ comps' = comps
    /\ file' = f
    /\ ret' = [op |-> "round_trip", c |-> c, ok |-> r.ok, error |-> r.error,
               left_input_wires |-> r.left_input_wires,
               right_input_wires |-> r.right_input_wires,
               output_wires |-> r.output_wires,
               wire_numbers |-> r.wire_numbers, text |-> r.text,
               again |-> IF r.ok
                         THEN Reinstantiate(BristolCircuit(f.content), r.cs.nwires)
                         ELSE build_description_raise(r.cs, r.error)]

\* the file after c.save: written when build_description returned
Saved(r) == IF r.ok THEN write(open_w(file), r.text) ELSE file

RoundTrip_saved(c, r) == RoundTrip_return(c, r, Saved(r))

\* c.save(path, left_inputs, right_inputs, outputs); t = BristolCircuit(path);
\* f = Circuit(); S = t(f, "l::L", "r::R"); f.build_description("l::L", "r::R", S)
RoundTrip(c, left_inputs, right_inputs, outputs) ==
    RoundTrip_saved(c, build_description(CS(c), left_inputs, right_inputs, outputs))

\* a script that builds a circuit from wires, primitive gates and gates added
\* directly, writes it, reads it back and ends; the other circuit only supplies wires
NextRoundTrip ==
    \/ Return /\ ret.op # "round_trip"
    \/ \E c \in Circuits : GetWire(c, None) /\ Within(MaxWires, MaxGates)
    \/ \E cls \in {ANDGate, XORGate, INVGate}, args \in WireArgs :
            NewPrimitiveGate("c", cls, args) /\ Within(MaxWires, MaxGates)
    \/ \E arg \in AddGateArgs : AddGate("c", arg) /\ Within(MaxWires, MaxGates)
    \/ \E l \in LeftSpecs, r \in RightSpecs, o \in OutputSpecs :
            RoundTrip("c", l, r, o) /\ Within(MaxWires, MaxGates)

SpecRoundTrip == Init /\ [][NextRoundTrip]_vars

\* a description was written and read back
WrittenBack == ret.op = "round_trip" /\ ret.ok

\* C20: let T be the description of a circuit whose left, right and output wire
\* lists are duplicate-free and pairwise disjoint and all of whose wires are declared
\* inputs, declared outputs or gate operands. Parsing T as a template, instantiating
\* it in a fresh circuit on inputs "l::L" and "r::R" and describing that circuit with
\* the same inputs and the component as output returns a text identical to T.
C20_RoundTrip ==
    (WrittenBack /\ WellDeclared) =>
        /\ file.content = ret.text
        /\ ret.again.ok
        /\ ret.again.text = ret.text

\* a description with a left input, an internal wire and an output, over two gates,
\* has been written and read back
C20_Witness ==
    /\ WrittenBack
    /\ WellDeclared
    /\ Len(ret.left_input_wires) = 1
    /\ Len(ret.output_wires) = 1
    /\ Len(gates[ret.c]) = 2
    /\ Len(InternalOrder) = 1
    /\ ret.again.ok

====
